---- MODULE Spec2Model ----
(***************************************************************************)
(* chopgrep: the embedding-indexed chunk store (db.ts) and the CLI run     *)
(* around it (chopper-grep.ts).                                            *)
(*                                                                         *)
(* The store is one SQLite file holding the table code_chunks, the vec0    *)
(* virtual table vec_index and three triggers that mirror code_chunks into *)
(* vec_index.  A Float32Array is modelled by its length and its first two  *)
(* components, every later component being 0; components are small         *)
(* integers (exact float32 values) chosen so that every norm is an         *)
(* integer and cosine distances are exact multiples of 1/25.  The zero     *)
(* vector, whose cosine distance the vec0 documentation does not define,   *)
(* is outside the vector domain of the store operations.                   *)
(***************************************************************************)
EXTENDS Integers, Sequences, FiniteSets, TLC

VARIABLES
  schema,          \* what the store file holds: table, vec_index dimension, triggers
  code_chunks,     \* rows of table code_chunks
  vec_index,       \* entries of the vec0 table vec_index
  sqlite_sequence, \* AUTOINCREMENT high-water mark of code_chunks
  handle,          \* the module-level db handle: "none" | "open" | "closed"
  closeCount,      \* close() calls of the current process
  bulk,            \* the running (or just ended) bulkInsertChunks call
  last,            \* the last completed operation, its arguments and outcome
  deleted,         \* identities deleted and not created again since
  cli              \* position and arguments of the CLI's main()

vars == <<schema, code_chunks, vec_index, sqlite_sequence, handle, closeCount,
          bulk, last, deleted, cli>>

store == <<schema, code_chunks, vec_index, sqlite_sequence>>

----------------------------------------------------------------------------
(* Program constants and bounds *)

EMBEDDING_DIM == 384

BytesPerFloat == 4

\* highest identity the model lets code_chunks assign or be updated to
MaxId == 3

\* longest chunk sequence handed to bulkInsertChunks
MaxChunks == 3

\* most chunks the indexed directory yields
MaxDir == 2

\* largest batchSize handed to bulkInsertChunks
MaxBatchSize == 2

\* most batches of one bulkInsertChunks call the model follows
MaxBatches == 4

\* largest k handed to searchSimilar
MaxK == 2

\* dimension of a vec_index created by something other than this build
OtherDim == 768

\* cosine distances are carried as integers: distance * DistScale
DistScale == 5 * 5

----------------------------------------------------------------------------
(* Vectors and their byte payloads *)

Float32Array(n, h) == [length |-> n, head |-> h]

E1 == <<1, 0>>
E2 == <<0, 1>>
E3 == <<4, 3>>

Heads == {E1, E2, E3}

ValidVecs == {Float32Array(EMBEDDING_DIM, h) : h \in Heads}

WrongVecs == {Float32Array(EMBEDDING_DIM - 1, E1), Float32Array(EMBEDDING_DIM + 1, E2)}

Vecs == ValidVecs \cup WrongVecs

\* src/db.ts:72 — the bytes of the array: 4 per component
float32ToBuffer(arr) ==
  [byteLength |-> BytesPerFloat * arr.length, words |-> arr.head]

\* vec0 reading a blob back as a float vector
bufferToFloat32(buf) ==
  [length |-> buf.byteLength \div BytesPerFloat, head |-> buf.words]

----------------------------------------------------------------------------
(* The store: SQLite statements, the vec0 table and the three triggers *)

NoSchema == [table |-> FALSE, vecDim |-> 0, triggers |-> {}]

Triggers == {"code_chunks_after_insert", "code_chunks_after_delete",
             "code_chunks_after_update"}

Store(sc, cc, vi, seq) == [schema |-> sc, cc |-> cc, vi |-> vi, seq |-> seq]

Ids(cc) == {r.id : r \in cc}

Rowids(vi) == {e.rowid : e \in vi}

MaxOf(S) == IF S = {} THEN 0 ELSE CHOOSE m \in S : \A x \in S : x <= m

\* DELETE FROM vec_index WHERE rowid = ?
VecDelete(S, rowid) == [S EXCEPT !.vi = {e \in S.vi : e.rowid # rowid}]

\* INSERT INTO vec_index(rowid, embedding) VALUES (?, ?): vec0 rejects a vector
\* whose dimension is not the table's, and a rowid it already holds
VecInsertOk(S, rowid, blob) ==
  /\ S.schema.vecDim > 0
  /\ blob.byteLength = BytesPerFloat * S.schema.vecDim
  /\ rowid \notin Rowids(S.vi)

VecInsert(S, rowid, blob) ==
  [S EXCEPT !.vi = @ \cup {[rowid |-> rowid, embedding |-> bufferToFloat32(blob)]}]

\* A trigger body's result: ok = FALSE aborts the statement that fired it
Fired(ok, S) == [ok |-> ok, S |-> S]

\* src/db.ts:44 AFTER INSERT ON code_chunks
code_chunks_after_insert(S, new) ==
  IF "code_chunks_after_insert" \notin S.schema.triggers THEN Fired(TRUE, S)
  ELSE IF VecInsertOk(S, new.id, new.embedding)
       THEN Fired(TRUE, VecInsert(S, new.id, new.embedding))
       ELSE Fired(FALSE, S)

\* the delete trigger left out of the schema
NoDeleteTrigger(S, old) == Fired(TRUE, S)

\* src/db.ts:51 AFTER DELETE ON code_chunks
code_chunks_after_delete(S, old) ==
  IF "code_chunks_after_delete" \notin S.schema.triggers THEN Fired(TRUE, S)
  ELSE Fired(TRUE, VecDelete(S, old.id))

\* the update trigger deleting the entry keyed by the new identity
UpdateTriggerDeletesNew(S, old, new) ==
  IF "code_chunks_after_update" \notin S.schema.triggers THEN Fired(TRUE, S)
  ELSE LET D1 == VecDelete(S, new.id)
       IN IF VecInsertOk(D1, new.id, new.embedding)
          THEN Fired(TRUE, VecInsert(D1, new.id, new.embedding))
          ELSE Fired(FALSE, S)

\* src/db.ts:58 AFTER UPDATE ON code_chunks: delete old.id, then insert new.id
code_chunks_after_update(S, old, new) ==
  IF "code_chunks_after_update" \notin S.schema.triggers THEN Fired(TRUE, S)
  ELSE LET D1 == VecDelete(S, old.id)
       IN IF VecInsertOk(D1, new.id, new.embedding)
          THEN Fired(TRUE, VecInsert(D1, new.id, new.embedding))
          ELSE Fired(FALSE, S)

\* A statement's result; a failed statement leaves the store as it was
Ran(ok, S, id) == [ok |-> ok, S |-> S, id |-> id]

\* an INSERT into a table declared without AUTOINCREMENT: one past the
\* largest identity the table holds now
InsertAfterLargestRow(S, text, blob) ==
  IF ~S.schema.table THEN Ran(FALSE, S, 0)
  ELSE LET id  == MaxOf(Ids(S.cc)) + 1
           new == [id |-> id, chunk_text |-> text, embedding |-> blob]
           S1  == [S EXCEPT !.cc = @ \cup {new}, !.seq = id]
           T   == code_chunks_after_insert(S1, new)
       IN IF T.ok THEN Ran(TRUE, T.S, id) ELSE Ran(FALSE, S, 0)

\* INSERT INTO code_chunks (..., embedding) VALUES (...): the identity is
\* AUTOINCREMENT's, one past the largest ever assigned
SqlInsert(S, text, blob) ==
  IF ~S.schema.table THEN Ran(FALSE, S, 0)
  ELSE LET id  == MaxOf(Ids(S.cc) \cup {S.seq}) + 1
           new == [id |-> id, chunk_text |-> text, embedding |-> blob]
           S1  == [S EXCEPT !.cc = @ \cup {new}, !.seq = id]
           T   == code_chunks_after_insert(S1, new)
       IN IF T.ok THEN Ran(TRUE, T.S, id) ELSE Ran(FALSE, S, 0)

\* UPDATE code_chunks SET id = ?, embedding = ? WHERE id = ?
SqlUpdate(S, oldId, newId, blob) ==
  IF ~S.schema.table \/ oldId \notin Ids(S.cc) THEN Ran(FALSE, S, 0)
  ELSE IF newId # oldId /\ newId \in Ids(S.cc) THEN Ran(FALSE, S, 0)
  ELSE LET old == CHOOSE r \in S.cc : r.id = oldId
           new == [old EXCEPT !.id = newId, !.embedding = blob]
           S1  == [S EXCEPT !.cc = (@ \ {old}) \cup {new}]
           T   == code_chunks_after_update(S1, old, new)
       IN IF T.ok THEN Ran(TRUE, T.S, newId) ELSE Ran(FALSE, S, 0)

\* DELETE FROM code_chunks WHERE id = ?
SqlDelete(S, id) ==
  IF ~S.schema.table \/ id \notin Ids(S.cc) THEN Ran(FALSE, S, 0)
  ELSE LET old == CHOOSE r \in S.cc : r.id = id
           S1  == [S EXCEPT !.cc = @ \ {old}]
           T   == code_chunks_after_delete(S1, old)
       IN IF T.ok THEN Ran(TRUE, T.S, id) ELSE Ran(FALSE, S, 0)

\* The store as the state holds it
Cur == Store(schema, code_chunks, vec_index, sqlite_sequence)

SetStore(S) ==
  /\ schema' = S.schema
  /\ code_chunks' = S.cc
  /\ vec_index' = S.vi
  /\ sqlite_sequence' = S.seq

----------------------------------------------------------------------------
(* cosine distance and the KNN query of searchSimilar *)

Dot(a, b) == a[1] * b[1] + a[2] * b[2]

\* the Euclidean norm; every vector of the model has an integer norm
Norm(a) == CHOOSE r \in 0..(Dot(a, a)) : r * r = Dot(a, a)

\* 0/0: the distance of or to an all-zero vector.  vec0 documents no order for
\* it; it is carried as a value past every distance, and the store operations
\* under any caller never meet it
NaNDistance == 2 * DistScale + 1

\* vec0, distance_metric=cosine: 1 - a.b / (|a| |b|), here times DistScale
CosineDistance(a, b) ==
  IF Norm(a.head) * Norm(b.head) = 0 THEN NaNDistance
  ELSE DistScale - (DistScale * Dot(a.head, b.head)) \div (Norm(a.head) * Norm(b.head))

Take(s, n) == IF n < 0 THEN s ELSE SubSeq(s, 1, IF n < Len(s) THEN n ELSE Len(s))

\* closest first; entries at the same distance in rowid order
Closer(x, y) ==
  \/ x.distance < y.distance
  \/ x.distance = y.distance /\ x.id <= y.id

\* farthest first
Farther(x, y) ==
  \/ x.distance > y.distance
  \/ x.distance = y.distance /\ x.id <= y.id

\* src/db.ts:139 ORDER BY distance
OrderByDistance(x, y) == Closer(x, y)

RECURSIVE Sorted(_)
Sorted(R) ==
  IF R = {} THEN <<>>
  ELSE LET m == CHOOSE x \in R : \A y \in R : OrderByDistance(x, y)
       IN <<m>> \o Sorted(R \ {m})

RECURSIVE Nearest(_)
Nearest(R) ==
  IF R = {} THEN <<>>
  ELSE LET m == CHOOSE x \in R : \A y \in R : Closer(x, y)
       IN <<m>> \o Nearest(R \ {m})

\* a scan that stops at the first k entries in rowid order, whatever their distance
FirstK(vi, q, k) ==
  LET all == {[id |-> e.rowid, distance |-> CosineDistance(e.embedding, q)] : e \in vi}
      low == {x \in all : Cardinality({y \in all : y.id < x.id}) < k}
  IN low

\* src/db.ts:137 v.embedding MATCH ? AND v.k = ?: the k entries of vec_index
\* nearest to the query, each with its distance
Knn(vi, q, k) ==
  LET all == {[id |-> e.rowid, distance |-> CosineDistance(e.embedding, q)] : e \in vi}
      top == Take(Nearest(all), k)
  IN {top[n] : n \in 1..Len(top)}

\* a LEFT JOIN: a match without a row comes back with empty fields
LeftJoinChunks(cc, matches) ==
  {[id |-> r.id, chunk_text |-> r.chunk_text, distance |-> m.distance] :
     <<r, m>> \in {p \in cc \X matches : p[1].id = p[2].id}}
  \cup {[id |-> m.id, chunk_text |-> -1, distance |-> m.distance] :
          m \in {x \in matches : x.id \notin Ids(cc)}}

\* src/db.ts:136 JOIN code_chunks c ON c.id = v.rowid
JoinChunks(cc, matches) ==
  {[id |-> r.id, chunk_text |-> r.chunk_text, distance |-> m.distance] :
     <<r, m>> \in {p \in cc \X matches : p[1].id = p[2].id}}

\* the SELECT of searchSimilar: ok = FALSE when vec0 rejects the query
Selected(ok, rows, S) == [ok |-> ok, rows |-> rows, S |-> S]

\* a query that consumes the entries it matched
SelectDeletesMatches(S, qBuf, k) ==
  IF ~S.schema.table \/ S.schema.vecDim = 0 THEN Selected(FALSE, <<>>, S)
  ELSE IF qBuf.byteLength # BytesPerFloat * S.schema.vecDim \/ k < 0
       THEN Selected(FALSE, <<>>, S)
  ELSE LET m == Knn(S.vi, bufferToFloat32(qBuf), k)
       IN Selected(TRUE, Take(Sorted(JoinChunks(S.cc, m)), k),
                   [S EXCEPT !.vi = {e \in @ : e.rowid \notin {x.id : x \in m}}])

\* src/db.ts:125 the statement run by stmt.all(qBuf, k, k)
SelectSimilar(S, qBuf, k) ==
  IF ~S.schema.table \/ S.schema.vecDim = 0 THEN Selected(FALSE, <<>>, S)
  ELSE IF qBuf.byteLength # BytesPerFloat * S.schema.vecDim \/ k < 0
       THEN Selected(FALSE, <<>>, S)
  ELSE Selected(TRUE, Take(Sorted(JoinChunks(S.cc, Knn(S.vi, bufferToFloat32(qBuf), k))), k), S)

----------------------------------------------------------------------------
(* db.ts: module load, insertChunk, searchSimilar, close *)

\* a setup that takes out the triggers it finds and installs the missing ones
ReplaceTriggers(sc) ==
  [table    |-> TRUE,
   vecDim   |-> IF sc.vecDim = 0 THEN EMBEDDING_DIM ELSE sc.vecDim,
   triggers |-> Triggers \ sc.triggers]

\* src/db.ts:24-64 the five db.exec calls, each CREATE ... IF NOT EXISTS
ensureSchema(sc) ==
  [table    |-> TRUE,
   vecDim   |-> IF sc.vecDim = 0 THEN EMBEDDING_DIM ELSE sc.vecDim,
   triggers |-> sc.triggers \cup Triggers]

\* a length check that lets longer arrays through
LenientEmbeddingDim(arr) == arr.length >= EMBEDDING_DIM

\* src/db.ts:67 TRUE when the check passes, FALSE when it throws
assertEmbeddingDim(arr) == arr.length = EMBEDDING_DIM

Idle ==
  [pc |-> "idle", chunks |-> <<>>, batchSize |-> 0, i |-> 0, batch |-> <<>>,
   j |-> 0, snap |-> <<>>, seq0 |-> 0, ended |-> <<>>, status |-> "none"]

NoOp == [op |-> "none"]

CliOff == [pc |-> "off"]

\* no call is running: JavaScript runs one call at a time
Quiet == bulk.pc \in {"idle", "done"}

NextId == MaxOf(Ids(code_chunks) \cup {sqlite_sequence}) + 1

\* a process starts: new Database(DB_PATH), sqliteVec.load, the schema statements
LoadModule ==
  /\ handle \in {"none", "closed"}
  /\ cli.pc = "off"
  /\ schema' = ensureSchema(schema)
  /\ handle' = "open"
  /\ closeCount' = 0
  /\ bulk' = Idle
  /\ last' = [op |-> "load", status |-> "ok", before |-> schema]
  /\ UNCHANGED <<code_chunks, vec_index, sqlite_sequence, deleted, cli>>

\* the outcome of insertChunk(chunk) on store S through handle h
insertChunk(S, h, chunk) ==
  IF ~assertEmbeddingDim(chunk.embedding)
  THEN [status |-> "DimensionMismatch", S |-> S, id |-> 0]
  ELSE IF h # "open" THEN [status |-> "Closed", S |-> S, id |-> 0]
  ELSE LET R == SqlInsert(S, chunk.chunk_text, float32ToBuffer(chunk.embedding))
       IN IF R.ok THEN [status |-> "ok", S |-> R.S, id |-> R.id]
          ELSE [status |-> "SqlError", S |-> S, id |-> 0]

InsertChunk(v) ==
  /\ handle \in {"open", "closed"}
  /\ cli.pc = "off"
  /\ Quiet
  /\ LET R == insertChunk(Cur, handle, [chunk_text |-> 0, embedding |-> v])
     IN /\ R.status = "ok" => R.id <= MaxId
        /\ SetStore(R.S)
        /\ last' = [op |-> "insertChunk", arg |-> v, status |-> R.status, id |-> R.id]
        /\ deleted' = IF R.status = "ok" THEN deleted \ {R.id} ELSE deleted
  /\ bulk' = Idle
  /\ UNCHANGED <<handle, closeCount, cli>>

\* the outcome of searchSimilar(queryEmbedding, k) on store S through handle h
searchSimilar(S, h, queryEmbedding, k) ==
  IF ~assertEmbeddingDim(queryEmbedding)
  THEN [status |-> "DimensionMismatch", S |-> S, results |-> <<>>]
  ELSE IF h # "open" THEN [status |-> "Closed", S |-> S, results |-> <<>>]
  ELSE LET R == SelectSimilar(S, float32ToBuffer(queryEmbedding), k)
       IN IF R.ok THEN [status |-> "ok", S |-> R.S, results |-> R.rows]
          ELSE [status |-> "SqlError", S |-> S, results |-> <<>>]

SearchSimilar(q, k) ==
  /\ handle \in {"open", "closed"}
  /\ cli.pc = "off"
  /\ Quiet
  /\ LET R == searchSimilar(Cur, handle, q, k)
     IN /\ SetStore(R.S)
        /\ last' = [op |-> "search", arg |-> q, k |-> k, status |-> R.status,
                    results |-> R.results, deletedThen |-> deleted,
                    open |-> handle = "open",
                    repeat |-> /\ last.op = "search"
                               /\ last.arg = q
                               /\ last.k = k]
  /\ bulk' = Idle
  /\ UNCHANGED <<handle, closeCount, deleted, cli>>

\* src/db.ts:155
Close ==
  /\ handle = "open"
  /\ cli.pc = "off"
  /\ Quiet
  /\ handle' = "closed"
  /\ closeCount' = closeCount + 1
  /\ bulk' = Idle
  /\ last' = [op |-> "close"]
  /\ UNCHANGED <<store, deleted, cli>>

----------------------------------------------------------------------------
(* statements on code_chunks issued outside db.ts's functions *)

UpdateRow(oldId, newId, v) ==
  /\ handle = "open"
  /\ cli.pc = "off"
  /\ Quiet
  /\ oldId \in Ids(code_chunks)
  /\ LET old == CHOOSE r \in code_chunks : r.id = oldId
         R   == SqlUpdate(Cur, oldId, newId, float32ToBuffer(v))
     IN /\ SetStore(R.S)
        /\ last' = [op |-> "update", oldId |-> oldId, newId |-> newId, arg |-> v,
                    status |-> IF R.ok THEN "ok" ELSE "SqlError",
                    inUse |-> newId \in Ids(code_chunks)]
        /\ deleted' = IF R.ok THEN deleted \ {newId} ELSE deleted
  /\ bulk' = Idle
  /\ UNCHANGED <<handle, closeCount, cli>>

DeleteRow(id) ==
  /\ handle = "open"
  /\ cli.pc = "off"
  /\ Quiet
  /\ id \in Ids(code_chunks)
  /\ LET R == SqlDelete(Cur, id)
     IN /\ SetStore(R.S)
        /\ last' = [op |-> "delete", id |-> id, status |-> IF R.ok THEN "ok" ELSE "SqlError"]
        /\ deleted' = IF R.ok THEN deleted \cup {id} ELSE deleted
  /\ bulk' = Idle
  /\ UNCHANGED <<handle, closeCount, cli>>

----------------------------------------------------------------------------
(* db.ts: bulkInsertChunks *)

Min(a, b) == IF a < b THEN a ELSE b

Max(a, b) == IF a > b THEN a ELSE b

\* a slice that takes the element at its end index too
SliceThrough(s, from, to) ==
  LET n  == Len(s)
      lo == IF from < 0 THEN Max(n + from, 0) ELSE Min(from, n)
      hi == IF to < 0 THEN Max(n + to + 1, 0) ELSE Min(to + 1, n)
  IN SubSeq(s, lo + 1, hi)

\* Array.prototype.slice(from, to): a negative index counts back from the end
Slice(s, from, to) ==
  LET n  == Len(s)
      lo == IF from < 0 THEN Max(n + from, 0) ELSE Min(from, n)
      hi == IF to < 0 THEN Max(n + to, 0) ELSE Min(to, n)
  IN SubSeq(s, lo + 1, hi)

\* the input array: chunk_text carries the record's index in the input
ChunksOf(vs) == [n \in 1..Len(vs) |-> [chunk_text |-> n - 1, embedding |-> vs[n]]]

BulkVecs == {Float32Array(EMBEDDING_DIM, E1), Float32Array(EMBEDDING_DIM - 1, E1)}

BulkInputs == UNION {[1..n -> BulkVecs] : n \in 0..MaxChunks}

\* a transaction that keeps what it wrote when its body throws
KeepWrites(snap, cur) == cur

\* db.transaction: ROLLBACK when the body throws
Rollback(snap, cur) == snap

\* src/db.ts:90-95 the call: db.prepare throws on a closed handle; else the loop starts
StartBulk(chunks, batchSize) ==
  IF handle # "open"
  THEN [Idle EXCEPT !.pc = "done", !.status = "Closed", !.chunks = chunks,
                    !.batchSize = batchSize]
  ELSE [Idle EXCEPT !.pc = "loop", !.status = "running", !.chunks = chunks,
                    !.batchSize = batchSize, !.seq0 = NextId - 1]

\* called here on an open handle only
BulkInsertChunks(vs, batchSize) ==
  /\ handle = "open"
  /\ cli.pc = "off"
  /\ Quiet
  /\ NextId + Cardinality({n \in 1..Len(vs) : assertEmbeddingDim(vs[n])}) - 1 <= MaxId
  /\ bulk' = StartBulk(ChunksOf(vs), batchSize)
  /\ last' = [op |-> "bulk"]
  /\ UNCHANGED <<store, handle, closeCount, deleted, cli>>

\* src/db.ts:103-105 the loop test, the slice, BEGIN
BulkLoop ==
  /\ bulk.pc = "loop"
  /\ Len(bulk.ended) < MaxBatches
  /\ IF bulk.i < Len(bulk.chunks)
     THEN bulk' = [bulk EXCEPT !.pc = "txn",
                               !.batch = Slice(bulk.chunks, bulk.i, bulk.i + bulk.batchSize),
                               !.j = 1,
                               !.snap = <<Cur, deleted>>]
     ELSE bulk' = [bulk EXCEPT !.pc = "done", !.status = "ok"]
  /\ UNCHANGED <<store, handle, closeCount, last, deleted, cli>>

Ended(committed) ==
  Append(bulk.ended, [lo |-> bulk.i, batch |-> bulk.batch, committed |-> committed])

\* src/db.ts:97-100 one record of the batch: the check, then insertOne.run
BulkInsertOne ==
  /\ bulk.pc = "txn"
  /\ bulk.j <= Len(bulk.batch)
  /\ LET c == bulk.batch[bulk.j]
         R == insertChunk(Cur, handle, c)
     IN IF R.status = "ok"
        THEN /\ SetStore(R.S)
             /\ deleted' = deleted \ {R.id}
             /\ bulk' = [bulk EXCEPT !.j = @ + 1]
        ELSE /\ SetStore(Rollback(bulk.snap, <<Cur, deleted>>)[1])
             /\ deleted' = Rollback(bulk.snap, <<Cur, deleted>>)[2]
             /\ bulk' = [bulk EXCEPT !.pc = "done", !.status = R.status,
                                     !.ended = Ended(FALSE), !.snap = <<>>]
  /\ UNCHANGED <<handle, closeCount, last, cli>>

\* a loop step that is one too long
SkipOne(i, batchSize) == i + batchSize + 1

\* src/db.ts:103 i += batchSize
NextBatch(i, batchSize) == i + batchSize

\* the batch body ended: COMMIT, then the loop's step
BulkCommit ==
  /\ bulk.pc = "txn"
  /\ bulk.j > Len(bulk.batch)
  /\ bulk' = [bulk EXCEPT !.pc = "loop", !.ended = Ended(TRUE), !.snap = <<>>,
                          !.i = NextBatch(bulk.i, bulk.batchSize)]
  /\ UNCHANGED <<store, handle, closeCount, last, deleted, cli>>

----------------------------------------------------------------------------
(* The store operations under any caller *)

Ks == (-1)..MaxK

\* query vectors: two of the right length, one too short
Queries == {Float32Array(EMBEDDING_DIM, E1), Float32Array(EMBEDDING_DIM, E3),
            Float32Array(EMBEDDING_DIM - 1, E1)}

\* embeddings written by UPDATE statements: one the index takes, one it rejects
UpdateVecs == {Float32Array(EMBEDDING_DIM, E2), Float32Array(EMBEDDING_DIM + 1, E2)}

BatchSizes == 1..MaxBatchSize

Init ==
  /\ schema = NoSchema
  /\ code_chunks = {}
  /\ vec_index = {}
  /\ sqlite_sequence = 0
  /\ handle = "none"
  /\ closeCount = 0
  /\ bulk = Idle
  /\ last = NoOp
  /\ deleted = {}
  /\ cli = CliOff

Next ==
  \/ LoadModule
  \/ \E v \in Vecs : InsertChunk(v)
  \/ \E vs \in BulkInputs, b \in BatchSizes : BulkInsertChunks(vs, b)
  \/ BulkLoop
  \/ BulkInsertOne
  \/ BulkCommit
  \/ \E q \in Queries, k \in Ks : SearchSimilar(q, k)
  \/ \E o \in 1..MaxId, n \in 1..MaxId, v \in UpdateVecs : UpdateRow(o, n, v)
  \/ \E i \in 1..MaxId : DeleteRow(i)
  \/ Close

Spec == Init /\ [][Next]_vars

\* the store file as a process may find it: new, or holding a vec_index that
\* something else created with another dimension, with or without the rest
FoundSchemas ==
  {NoSchema,
   [table |-> FALSE, vecDim |-> OtherDim, triggers |-> {}],
   [table |-> TRUE, vecDim |-> OtherDim, triggers |-> Triggers]}

InitAnyStore ==
  /\ schema \in FoundSchemas
  /\ code_chunks = {}
  /\ vec_index = {}
  /\ sqlite_sequence = 0
  /\ handle = "none"
  /\ closeCount = 0
  /\ bulk = Idle
  /\ last = NoOp
  /\ deleted = {}
  /\ cli = CliOff

SpecSchema == InitAnyStore /\ [][Next]_vars

\* batchSize as any integer a caller may pass: negative, zero, positive
AnyBatchSizes == (-1)..MaxBatchSize

\* inserts and deletes only: insertChunk, bulkInsertChunks under a caller
\* that passes any batchSize, and DELETE statements between the calls
NextBulk ==
  \/ LoadModule
  \/ \E v \in Vecs : InsertChunk(v)
  \/ \E vs \in BulkInputs, b \in AnyBatchSizes : BulkInsertChunks(vs, b)
  \/ BulkLoop
  \/ BulkInsertOne
  \/ BulkCommit
  \/ \E i \in 1..MaxId : DeleteRow(i)
  \/ Close

SpecBulk == Init /\ [][NextBulk]_vars

\* a vec_index entry without a code_chunks row, as a statement on vec_index
\* outside db.ts leaves it: db.ts's own operations never produce one
OrphanEntry == [rowid |-> MaxId, embedding |-> Float32Array(EMBEDDING_DIM, E1)]

\* the store file as a process may find it: set up by this build, holding no
\* row and one vec_index entry
InitOrphan ==
  /\ schema = ensureSchema(NoSchema)
  /\ code_chunks = {}
  /\ vec_index = {OrphanEntry}
  /\ sqlite_sequence = 0
  /\ handle = "none"
  /\ closeCount = 0
  /\ bulk = Idle
  /\ last = NoOp
  /\ deleted = {}
  /\ cli = CliOff

SpecOrphan == InitOrphan /\ [][Next]_vars

----------------------------------------------------------------------------
(* chopper-grep.ts: calculateEmbedding, indexDirectory, query, main *)

\* bulkInsertChunks(chunks, batchSize = 500)
DefaultBatchSize == 500

\* parseInt(args[2] || '5'), and yargs' default for k
DefaultK == 5

ZeroVec == Float32Array(EMBEDDING_DIM, <<0, 0>>)

\* what the embedding pipeline may do for one text
PipeOutputs ==
  {[kind |-> "data", data |-> Float32Array(EMBEDDING_DIM, E1)],
   [kind |-> "data", data |-> Float32Array(EMBEDDING_DIM + 1, E2)],
   [kind |-> "nodata"],
   [kind |-> "throw"]}

\* an embedding step that hands on the pipeline's data as it is
PassThrough(variant, out) == IF out.kind = "data" THEN out.data ELSE ZeroVec

\* calculateEmbedding: the older main throws on a wrong length inside its own
\* try and so returns zeros; the newer one truncates or pads
calculateEmbedding(variant, out) ==
  IF out.kind = "data"
  THEN IF out.data.length # EMBEDDING_DIM
       THEN IF variant = "argv" THEN ZeroVec
            ELSE Float32Array(EMBEDDING_DIM, out.data.head)
       ELSE out.data
  ELSE ZeroVec

Variants == {"argv", "yargs"}

Dirs == UNION {[1..n -> PipeOutputs] : n \in 0..MaxDir}

CliArgs ==
  {[command |-> "index", dir |-> d, readFails |-> f] : d \in Dirs, f \in BOOLEAN}
  \cup {[command |-> "query", hasText |-> TRUE, k |-> k, out |-> o] :
          k \in Ks \cup {DefaultK}, o \in PipeOutputs}
  \cup {[command |-> "query", hasText |-> FALSE]}
  \cup {[command |-> c] : c \in {"none", "unknown", "help"}}

\* a process starts: db.ts loads (handle, schema), then the pipeline loads;
\* a pipeline that fails to load ends the process before main() is called
CliStart(variant, args, pipelineLoads) ==
  /\ cli.pc \in {"start", "exited", "crashed"}
  /\ schema' = ensureSchema(schema)
  /\ handle' = "open"
  /\ closeCount' = 0
  /\ bulk' = Idle
  /\ cli' = [pc |-> IF pipelineLoads THEN "main" ELSE "crashed",
             variant |-> variant, args |-> args]
  /\ UNCHANGED <<code_chunks, vec_index, sqlite_sequence, last, deleted>>

\* yargs ends the process itself on help, a missing or unknown command and a
\* missing positional
YargsExits(args) ==
  \/ args.command \in {"none", "unknown", "help"}
  \/ args.command = "query" /\ ~args.hasText

\* the older main ends the process on a missing query text
ArgvExits(args) == args.command = "query" /\ ~args.hasText

At(pc) == [cli EXCEPT !.pc = pc]

\* main() up to its first call into the store
CliMain ==
  /\ cli.pc = "main"
  /\ LET a == cli.args
     IN IF (cli.variant = "yargs" /\ YargsExits(a)) \/ (cli.variant = "argv" /\ ArgvExits(a))
        THEN cli' = At("exited") /\ UNCHANGED <<store, bulk>>
        ELSE IF a.command = "index"
        THEN IF a.readFails \/ Len(a.dir) = 0
             THEN cli' = At("dispose") /\ UNCHANGED <<store, bulk>>
             ELSE /\ NextId + Len(a.dir) - 1 <= MaxId
                  /\ bulk' = StartBulk(
                       ChunksOf([n \in 1..Len(a.dir) |-> calculateEmbedding(cli.variant, a.dir[n])]),
                       DefaultBatchSize)
                  /\ cli' = At("indexing")
                  /\ UNCHANGED store
        ELSE IF a.command = "query"
        THEN LET R == searchSimilar(Cur, handle, calculateEmbedding(cli.variant, a.out), a.k)
             IN /\ SetStore(R.S)
                /\ cli' = At(IF R.status = "ok" THEN "closing" ELSE "threw")
                /\ UNCHANGED bulk
        ELSE cli' = At("closing") /\ UNCHANGED <<store, bulk>>
  /\ UNCHANGED <<handle, closeCount, last, deleted>>

\* indexDirectory's try block ended; an error of bulkInsertChunks is caught there
CliIndexDone ==
  /\ cli.pc = "indexing"
  /\ bulk.pc = "done"
  /\ cli' = At("dispose")
  /\ UNCHANGED <<store, handle, closeCount, bulk, last, deleted>>

\* finally { factory.dispose() }: an error here leaves indexDirectory
CliDispose(throws) ==
  /\ cli.pc = "dispose"
  /\ cli' = At(IF throws THEN "threw" ELSE "closing")
  /\ UNCHANGED <<store, handle, closeCount, bulk, last, deleted>>

\* an error left query or indexDirectory: main() rejects into its catch; under
\* yargs the failed handler may instead end the process in yargs' fail path
CliThrew(yargsExits) ==
  /\ cli.pc = "threw"
  /\ yargsExits => cli.variant = "yargs"
  /\ cli' = At(IF yargsExits THEN "exited" ELSE "catch")
  /\ UNCHANGED <<store, handle, closeCount, bulk, last, deleted>>

\* close() at the end of main (older) or of the command handler (newer)
CliClose ==
  /\ cli.pc = "closing"
  /\ handle' = "closed"
  /\ closeCount' = closeCount + 1
  /\ cli' = At("exited")
  /\ UNCHANGED <<store, bulk, last, deleted>>

\* main().catch: close(), process.exit(1)
CliCatch ==
  /\ cli.pc = "catch"
  /\ handle' = "closed"
  /\ closeCount' = closeCount + 1
  /\ cli' = At("exited")
  /\ UNCHANGED <<store, bulk, last, deleted>>

InitCli ==
  /\ schema = NoSchema
  /\ code_chunks = {}
  /\ vec_index = {}
  /\ sqlite_sequence = 0
  /\ handle = "none"
  /\ closeCount = 0
  /\ bulk = Idle
  /\ last = NoOp
  /\ deleted = {}
  /\ cli = [pc |-> "start"]

NextCli ==
  \/ \E v \in Variants, a \in CliArgs, p \in BOOLEAN : CliStart(v, a, p)
  \/ CliMain
  \/ BulkLoop
  \/ BulkInsertOne
  \/ BulkCommit
  \/ CliIndexDone
  \/ \E t \in BOOLEAN : CliDispose(t)
  \/ \E y \in BOOLEAN : CliThrew(y)
  \/ CliClose
  \/ CliCatch

SpecCli == InitCli /\ [][NextCli]_vars

----------------------------------------------------------------------------
(* Properties of the store operations *)

EntriesOf(vi, id) == {e \in vi : e.rowid = id}

RowsOf(cc, id) == {r \in cc : r.id = id}

Bijection ==
  /\ Ids(code_chunks) = Rowids(vec_index)
  /\ \A i \in Ids(code_chunks) :
       /\ Cardinality(RowsOf(code_chunks, i)) = 1
       /\ Cardinality(EntriesOf(vec_index, i)) = 1
  /\ \A r \in code_chunks, e \in vec_index :
       e.rowid = r.id => float32ToBuffer(e.embedding) = r.embedding

\* C1: at every transaction boundary (no batch transaction open), whatever
\* inserts, batches (committed or rolled back), row updates and row deletes
\* came before, code_chunks and vec_index hold the same identities, one entry
\* per identity, each entry with its row's embedding.
C1_Bijection == bulk.pc # "txn" => Bijection

\* C1 witness: a batch was rolled back after it had inserted a record, in
\* a store that holds a row and has had a row deleted.
C1_Witness ==
  /\ bulk.pc = "done"
  /\ bulk.status = "DimensionMismatch"
  /\ Len(bulk.ended) = 1
  /\ Len(bulk.ended[1].batch) = 2
  /\ bulk.ended[1].batch[1].embedding.length = EMBEDDING_DIM
  /\ deleted # {}
  /\ code_chunks # {}

\* C2: insertChunk and searchSimilar called with an embedding whose length is
\* not EMBEDDING_DIM end in a dimension-mismatch error, on an open and on a
\* closed handle alike, and the step leaves the store as it was.
C2_DimensionMismatch ==
  [][(last'.op \in {"insertChunk", "search"} /\ last'.arg.length # EMBEDDING_DIM)
       => (last'.status = "DimensionMismatch" /\ UNCHANGED store)]_vars

\* C2 witness: insertChunk has just failed on a wrong-length embedding while
\* the store holds rows.
C2_Witness ==
  /\ last.op = "insertChunk"
  /\ last.arg.length # EMBEDDING_DIM
  /\ last.status = "DimensionMismatch"
  /\ code_chunks # {}

\* the rows this bulkInsertChunks call created
NewRows == {r \in code_chunks : r.id > bulk.seq0}

NewEntries == {e \in vec_index : e.rowid > bulk.seq0}

\* input record c is in both stores
Present(c) ==
  \E r \in NewRows :
    /\ r.chunk_text = c.chunk_text
    /\ r.embedding = float32ToBuffer(c.embedding)
    /\ EntriesOf(vec_index, r.id) = {[rowid |-> r.id, embedding |-> c.embedding]}

\* input record c is in neither store
Absent(c) ==
  /\ \A r \in NewRows : r.chunk_text # c.chunk_text
  /\ \A e \in NewEntries : \E r \in NewRows : r.id = e.rowid /\ r.chunk_text # c.chunk_text

BatchRecords(b) == {b.batch[n] : n \in 1..Len(b.batch)}

\* C3: of every batch that has ended, either all records are in both stores
\* (the batch committed) or none is in either (it rolled back), and a batch
\* holding a wrong-length embedding at any position rolled back.
C3_BatchAtomic ==
  \A n \in 1..Len(bulk.ended) :
    LET b == bulk.ended[n]
    IN /\ b.committed => \A c \in BatchRecords(b) : Present(c)
       /\ ~b.committed => \A c \in BatchRecords(b) : Absent(c)
       /\ (\E c \in BatchRecords(b) : c.embedding.length # EMBEDDING_DIM) => ~b.committed

\* C3 witness: a batch of two rolled back on its second record, after its
\* first record had been inserted.
C3_Witness ==
  /\ bulk.pc = "done"
  /\ Len(bulk.ended) >= 1
  /\ LET b == bulk.ended[Len(bulk.ended)]
     IN /\ ~b.committed
        /\ Len(b.batch) = 2
        /\ b.batch[1].embedding.length = EMBEDDING_DIM
        /\ b.batch[2].embedding.length # EMBEDDING_DIM

Invalid(chunks) == {n \in 1..Len(chunks) : chunks[n].embedding.length # EMBEDDING_DIM}

\* 0-based index of the first wrong-dimension record
FirstInvalid(chunks) == (CHOOSE n \in Invalid(chunks) : \A m \in Invalid(chunks) : n <= m) - 1

\* C4: a call on an open handle whose input holds a wrong-dimension record,
\* the first at index j, fails; the records before floor(j/batchSize)*batchSize
\* are in both stores, and only they: no record at or past that index is in
\* either store and no batch after the failing one ran.
C4_CommittedPrefix ==
  (bulk.pc = "done" /\ bulk.status # "Closed" /\ Invalid(bulk.chunks) # {}) =>
    LET j   == FirstInvalid(bulk.chunks)
        cut == (j \div bulk.batchSize) * bulk.batchSize
    IN /\ bulk.status = "DimensionMismatch"
       /\ \A n \in 1..Len(bulk.chunks) :
            IF n - 1 < cut THEN Present(bulk.chunks[n]) ELSE Absent(bulk.chunks[n])
       /\ Cardinality(NewRows) = cut
       /\ Cardinality(NewEntries) = cut
       /\ Len(bulk.ended) = (j \div bulk.batchSize) + 1

\* C4 witness: three records, batchSize 2, the record at index 2 invalid: the
\* batch [0,1] is committed and the batch [2] failed.
C4_Witness ==
  /\ bulk.pc = "done"
  /\ bulk.status = "DimensionMismatch"
  /\ bulk.batchSize = 2
  /\ Len(bulk.chunks) = 3
  /\ FirstInvalid(bulk.chunks) = 2
  /\ Cardinality(NewRows) = 2

\* C5: an identity deleted from code_chunks and not created again has no
\* vec_index entry, and no searchSimilar call returns it.
C5_NoGhost ==
  /\ \A i \in deleted : i \notin Rowids(vec_index) /\ i \notin Ids(code_chunks)
  /\ last.op = "search" =>
       \A n \in 1..Len(last.results) : last.results[n].id \notin last.deletedThen

\* C5 witness: a search run after a delete returned the rows that are left.
C5_Witness ==
  /\ last.op = "search"
  /\ last.deletedThen # {}
  /\ Len(last.results) >= 1

\* C6: an UPDATE of a row succeeds when the new embedding has the index's
\* dimension and the new id is free; it then leaves vec_index without the
\* entry keyed by the old identity and with exactly one entry keyed by the new
\* identity, carrying the new embedding; a failed UPDATE changes nothing.
C6_UpdateMirrors ==
  [][last'.op = "update" =>
       LET o == last'.oldId
           n == last'.newId
           v == last'.arg
       IN /\ last'.status = "ok" <=>
               (v.length = EMBEDDING_DIM /\ (n = o \/ n \notin Ids(code_chunks)))
          /\ IF last'.status = "ok"
             THEN /\ vec_index' = {e \in vec_index : e.rowid # o}
                                    \cup {[rowid |-> n, embedding |-> v]}
                  /\ EntriesOf(vec_index', n) = {[rowid |-> n, embedding |-> v]}
                  /\ n # o => EntriesOf(vec_index', o) = {}
                  /\ \E r \in code_chunks' : r.id = n /\ r.embedding = float32ToBuffer(v)
             ELSE UNCHANGED store]_vars

\* C6 witness: an update that changed a row's id and embedding succeeded
\* beside another row.
C6_Witness ==
  /\ last.op = "update"
  /\ last.status = "ok"
  /\ last.newId # last.oldId
  /\ Cardinality(code_chunks) >= 2

----------------------------------------------------------------------------
(* Properties of the CLI run and of schema setup *)

\* C9: when the CLI run has ended, on whatever path, close() has been called
\* exactly once and the handle is closed.
C9_ClosedExactlyOnce ==
  cli.pc = "exited" => (closeCount = 1 /\ handle = "closed")

\* C10: module load on a store whose vec_index has a dimension other than
\* EMBEDDING_DIM fails and leaves the schema as it found it.
C10_SetupFailsOnOtherDim ==
  (last.op = "load" /\ last.before.vecDim \notin {0, EMBEDDING_DIM}) =>
    (last.status = "fatal" /\ schema = last.before)

\* the schema this build's setup leaves in a new store
OwnSchema == [table |-> TRUE, vecDim |-> EMBEDDING_DIM, triggers |-> Triggers]

\* C11: module load on a store this build already set up succeeds and leaves
\* the schema (table, index dimension, the three triggers), the rows, the
\* index entries and the AUTOINCREMENT mark as they were; the bijection holds
\* after it, and an insertChunk issued next adds one row and exactly one
\* index entry, keyed by the new identity.
C11_SetupIdempotent ==
  [][(last'.op = "load" /\ last'.before = OwnSchema) =>
       /\ last'.status = "ok"
       /\ UNCHANGED store
       /\ Bijection'
       /\ \A v \in ValidVecs :
            LET R == insertChunk(Cur', handle', [chunk_text |-> 0, embedding |-> v])
            IN /\ R.status = "ok"
               /\ R.id \notin Ids(code_chunks)
               /\ R.S.cc = code_chunks \cup
                    {[id |-> R.id, chunk_text |-> 0, embedding |-> float32ToBuffer(v)]}
               /\ R.S.vi = vec_index \cup {[rowid |-> R.id, embedding |-> v]}
               /\ R.S.schema = schema]_vars

\* C11 witness: the module has just been loaded again on a store that holds
\* two rows and has had a row deleted.
C11_Witness ==
  /\ last.op = "load"
  /\ last.before = OwnSchema
  /\ Cardinality(code_chunks) = 2
  /\ deleted # {}

\* C12: two searchSimilar calls in a row on an open handle, with the same
\* vector of EMBEDDING_DIM components and with k <= 0 both times, have the same
\* kind of outcome (both an empty result or both an error), and neither
\* returns a result.
C12_OnePolicyForNonPositiveK ==
  [][(/\ last.op = "search" /\ last'.op = "search"
      /\ last.k <= 0 /\ last'.k <= 0
      /\ last.open /\ last'.open
      /\ last.arg = last'.arg
      /\ last'.arg.length = EMBEDDING_DIM)
       => /\ last'.status = last.status
          /\ last.results = <<>>
          /\ last'.results = <<>>]_vars

\* identities of the results of the last search
ResultIds == {last.results[n].id : n \in 1..Len(last.results)}

BatchesHolding(m) ==
  {b \in 1..Len(bulk.ended) :
     \E p \in 1..Len(bulk.ended[b].batch) : bulk.ended[b].batch[p].chunk_text = m}

\* C14: a bulkInsertChunks call on an open handle with n records, all of
\* EMBEDDING_DIM components, and batchSize >= 1: batch number b (from 0) is
\* the input records b*batchSize .. min(n, (b+1)*batchSize) - 1 and commits;
\* every transaction holds between 1 and batchSize records; when the call has
\* ended it has run ceil(n/batchSize) transactions, every input record is in
\* exactly one of them, and identities were assigned in input order.
C14_BatchPartition ==
  (/\ bulk.pc \in {"loop", "txn", "done"}
   /\ bulk.status # "Closed"
   /\ Invalid(bulk.chunks) = {}
   /\ bulk.batchSize >= 1) =>
    LET n  == Len(bulk.chunks)
        bs == bulk.batchSize
    IN /\ \A b \in 1..Len(bulk.ended) :
            /\ bulk.ended[b].committed
            /\ bulk.ended[b].lo = (b - 1) * bs
            /\ bulk.ended[b].batch = SubSeq(bulk.chunks, (b - 1) * bs + 1, Min(n, b * bs))
            /\ Len(bulk.ended[b].batch) \in 1..bs
       /\ bulk.pc = "txn" =>
            /\ bulk.i = Len(bulk.ended) * bs
            /\ bulk.batch = SubSeq(bulk.chunks, bulk.i + 1, Min(n, bulk.i + bs))
            /\ Len(bulk.batch) \in 1..bs
            /\ Cardinality(NewRows) = bulk.i + bulk.j - 1
       /\ \A r \in NewRows : r.id = bulk.seq0 + r.chunk_text + 1
       /\ bulk.pc = "done" =>
            /\ bulk.status = "ok"
            /\ Len(bulk.ended) = (n + bs - 1) \div bs
            /\ \A m \in 0..(n - 1) : Cardinality(BatchesHolding(m)) = 1
            /\ Cardinality(NewRows) = n

\* C14 witness: three valid records with batchSize 2 ended as two committed
\* batches, of two records and of one.
C14_Witness ==
  /\ bulk.pc = "done"
  /\ bulk.status = "ok"
  /\ Len(bulk.chunks) = 3
  /\ bulk.batchSize = 2
  /\ Len(bulk.ended) = 2
  /\ Len(bulk.ended[1].batch) = 2
  /\ Len(bulk.ended[2].batch) = 1

----------------------------------------------------------------------------
(* Properties of bulkInsertChunks under any batchSize *)

\* C15: a bulkInsertChunks call cannot run forever: every batch transaction
\* that ends leaves the loop index i strictly higher than it found it, so that
\* i reaches chunks.length after finitely many batches, whatever the integer
\* batchSize (zero and negative included).
C15_BulkTerminates ==
  [][(bulk.pc = "txn" /\ bulk'.pc = "loop") => bulk'.i > bulk.i]_vars

----------------------------------------------------------------------------
(* Properties of calculateEmbedding inside the CLI's index command *)

\* C16: in an index command that got as far as bulkInsertChunks, the record
\* built for each chunk of the directory has an embedding of exactly
\* EMBEDDING_DIM components whatever the pipeline did for that chunk (right
\* length, wrong length, no data, an error); it is all zeros when the
\* pipeline gave no data or threw; every chunk has its record; and the
\* bulkInsertChunks call does not fail with a dimension mismatch.
C16_EmbeddingAlwaysDim ==
  (/\ cli.pc \in {"indexing", "dispose", "closing", "threw", "catch", "exited"}
   /\ cli.args.command = "index"
   /\ bulk.pc # "idle") =>
    /\ Len(bulk.chunks) = Len(cli.args.dir)
    /\ \A n \in 1..Len(bulk.chunks) :
         /\ bulk.chunks[n].embedding.length = EMBEDDING_DIM
         /\ cli.args.dir[n].kind \in {"nodata", "throw"} =>
              bulk.chunks[n].embedding.head = <<0, 0>>
         /\ (cli.args.dir[n].kind = "data" /\ cli.args.dir[n].data.length = EMBEDDING_DIM) =>
              bulk.chunks[n].embedding = cli.args.dir[n].data
    /\ bulk.status # "DimensionMismatch"

\* C16 witness: an index command over two chunks, the pipeline giving a
\* wrong-length vector for the first and throwing for the second, has
\* inserted both records.
C16_Witness ==
  /\ cli.pc = "dispose"
  /\ cli.args.command = "index"
  /\ Len(cli.args.dir) = 2
  /\ cli.args.dir[1].kind = "data"
  /\ cli.args.dir[1].data.length # EMBEDDING_DIM
  /\ cli.args.dir[2].kind = "throw"
  /\ bulk.pc = "done"
  /\ bulk.status = "ok"
  /\ Cardinality(NewRows) = 2

\* identities of the rows committed so far: those held now and those deleted
EverCommitted == Ids(code_chunks) \cup deleted

\* C17: under inserts and deletes, every step that adds a row gives it an
\* identity strictly greater than that of every row committed before (held or
\* deleted) and of every row of its own transaction; the same holds of every
\* vec_index entry added and of the identity insertChunk returns; so no two
\* rows share an identity and a deleted identity is not assigned again.
C17_IdentitiesMonotonic ==
  [][/\ \A r \in code_chunks' \ code_chunks : r.id > MaxOf(EverCommitted)
     /\ \A e \in vec_index' \ vec_index : e.rowid > MaxOf(EverCommitted)
     /\ (last'.op = "insertChunk" /\ last'.status = "ok") =>
          /\ last'.id > MaxOf(EverCommitted)
          /\ last'.id \in Ids(code_chunks')
     /\ \A r, s \in code_chunks' : r.id = s.id => r = s]_vars

\* C17 witness: insertChunk returned an identity one past that of a deleted
\* row, into a table that held no row.
C17_Witness ==
  /\ last.op = "insertChunk"
  /\ last.status = "ok"
  /\ last.id - 1 \in deleted
  /\ Ids(code_chunks) = {last.id}

----------------------------------------------------------------------------
(* Properties of searchSimilar on a store with an entry that has no row *)

\* vec_index entries whose code_chunks row is missing
Orphans == {e \in vec_index : e.rowid \notin Ids(code_chunks)}

\* C18: searchSimilar with a vector of EMBEDDING_DIM components and k >= 1 on
\* an open handle succeeds also when vec_index holds an entry whose
\* code_chunks row is missing; every result carries the identity and fields of
\* a row that exists at the time of the query and the distance of that row's
\* own vec_index entry, and no result is made from an entry without a row.
C18_ResultsHaveRows ==
  (last.op = "search" /\ last.arg.length = EMBEDDING_DIM /\ last.k >= 1 /\ last.open) =>
    /\ last.status = "ok"
    /\ \A n \in 1..Len(last.results) :
         /\ \E r \in code_chunks, e \in vec_index :
              /\ r.id = last.results[n].id
              /\ r.chunk_text = last.results[n].chunk_text
              /\ e.rowid = r.id
              /\ last.results[n].distance = CosineDistance(e.embedding, last.arg)
         /\ last.results[n].id \notin Rowids(Orphans)

\* C18 witness: a search with k = 2 whose nearest match is an entry without a
\* row (distance 0) returned only the farther entry, which has its row.
C18_Witness ==
  /\ last.op = "search"
  /\ last.status = "ok"
  /\ last.k = 2
  /\ \E e \in Orphans : CosineDistance(e.embedding, last.arg) = 0
  /\ Cardinality(vec_index) = 2
  /\ Len(last.results) = 1
  /\ last.results[1].distance > 0

====
